---- MODULE Spec2Model ----
(***************************************************************************)
(* WAL-backed multiplexed blobstore                                        *)
(* (eden/mononoke/blobstore/multiplexedblob_wal/src/multiplex.rs).         *)
(*                                                                         *)
(* The multiplex fans put / get / is_present out over an array of "normal" *)
(* blobstores, decides by write / read quorum, logs every put to a         *)
(* write-ahead log first and writes the write-mostly blobstores in the     *)
(* background.  Underlying blobstores and the WAL are the environment:     *)
(* each attempt completes at an arbitrary moment (or never) with success   *)
(* or an error.                                                            *)
(***************************************************************************)
EXTENDS Integers, Sequences, FiniteSets, TLC

(* ------------------------------------------------------------------ *)
(* Bounds of the exploration                                           *)
(* ------------------------------------------------------------------ *)
\* largest number of normal blobstores of a configuration
MaxStores == 3
\* largest number of write-mostly blobstores of a configuration
MaxWriteMostly == 1
\* largest num_stores / write argument tried on MultiplexQuorum::new
MaxQuorumArg == 7

(* ------------------------------------------------------------------ *)
(* Data                                                                *)
(* ------------------------------------------------------------------ *)
Keys == {"k1", "k2"}
\* BlobstoreBytes: byte strings; len() is Len
Values == {<<7>>, <<8, 9>>}
\* Option<T> as a set with at most one element
None == {}
Some(x) == {x}
\* PutBehaviour values passed through by put_explicit
PutBehaviours == {"Overwrite", "IfAbsent", "OverwriteAndLog"}
\* Option<PutBehaviour>::None
NoBehaviour == "NoBehaviour"
PutEntries == {"put", "put_with_status", "put_explicit"}

VARIABLES
    multiplex_id,            \* WalMultiplexedBlobstore.multiplex_id
    blobstores,              \* sequence of BlobstoreId: the normal array
    write_mostly_blobstores, \* sequence of BlobstoreId: the write-mostly array
    quorum,                  \* MultiplexQuorum [read, write]
    wal_queue,               \* sequence of BlobstoreWalEntry appended so far
    next_operation_key,      \* source of OperationKey::gen()
    store,                   \* content of normal blobstore slot s: [Keys -> Option]
    wm_store,                \* content of write-mostly slot j: [Keys -> Option]
    calls,                   \* per client: the frame of its current (or last) call
    tasks,                   \* futures owned by tasks of spawn_stream_completion
    script,                  \* per client: the calls it has still to make
    acked,                   \* keys for which some put has returned Ok
    completed,               \* attempts of spawned tasks that have answered, with their output
    unpolled,                \* <<client, slot>>: futures of the client's stream not polled yet
    qargs,                   \* arguments handed to MultiplexQuorum::new
    qresult                  \* what MultiplexQuorum::new returned for qargs

vars == <<multiplex_id, blobstores, write_mostly_blobstores, quorum, wal_queue,
          next_operation_key, store, wm_store, calls, tasks, script, acked,
          completed, unpolled, qargs, qresult>>

config == <<multiplex_id, blobstores, write_mostly_blobstores, quorum>>

(* ------------------------------------------------------------------ *)
(* MultiplexQuorum::new                                                *)
(* ------------------------------------------------------------------ *)
QuorumErr(msg) == [ok |-> FALSE, read |-> 0, write |-> 0, msg |-> msg]

\* slip: the read quorum is derived without the + 1
MultiplexQuorum_new_read_short(num_stores, write) ==
    IF write > num_stores
    THEN QuorumErr("Not enough blobstores")
    ELSE IF write = 0
         THEN QuorumErr("Write quorum cannot be 0")
         ELSE [ok |-> TRUE, read |-> num_stores - write, write |-> write,
               msg |-> ""]

MultiplexQuorum_new(num_stores, write) ==
    IF write > num_stores
    THEN QuorumErr("Not enough blobstores")
    ELSE IF write = 0
         THEN QuorumErr("Write quorum cannot be 0")
         ELSE [ok |-> TRUE, read |-> num_stores - write + 1, write |-> write,
               msg |-> ""]

\* WalMultiplexedBlobstore::new: the quorum is derived from blobstores.len()
WalMultiplexedBlobstore_new(ids, wm_ids, write_quorum) ==
    LET q == MultiplexQuorum_new(Len(ids), write_quorum)
    IN  [ok |-> q.ok, blobstores |-> ids, write_mostly_blobstores |-> wm_ids,
         quorum |-> [read |-> q.read, write |-> q.write]]

(* ------------------------------------------------------------------ *)
(* Values of the per-call frame                                        *)
(* ------------------------------------------------------------------ *)
\* HashMap<BlobstoreId, Error>::new()
EmptyMap == [i \in {} |-> <<>>]

\* HashMap::insert: a second insert under the same BlobstoreId replaces the first
MapInsert(m, id, e) ==
    [i \in (DOMAIN m) \cup {id} |-> IF i = id THEN e ELSE m[i]]

\* one future of a FuturesUnordered: its request, where it stands, its output
\*   st: "pending"   launched, the blobstore has not answered
\*       "ready"     answered, output waiting in the stream
\*       "taken"     output consumed by the loop of the caller
\*       "bg"        was pending when the stream moved into a task of
\*                   spawn_stream_completion (it lives on in `tasks`)
\*       "unread"    output was ready when the stream left the caller
\*       "dropped"   pending when the stream was dropped: never polled again
Fut(bs_id, req) ==
    [st |-> "pending", bs_id |-> bs_id, req |-> req,
     ok |-> FALSE, val |-> "", data |-> None, err |-> <<>>]

NoResult == [t |-> "none", v |-> "", data |-> None, errors |-> EmptyMap]
OkResult(v, data) == [t |-> "Ok", v |-> v, data |-> data, errors |-> EmptyMap]
ErrResult(kind, errors) == [t |-> "Err", v |-> kind, data |-> None, errors |-> errors]
\* Ok(BlobstoreIsPresent::ProbablyNotPresent(ErrorKind::SomeIsPresentsFailed(errors)))
ProbablyResult(errors) ==
    [t |-> "Ok", v |-> "ProbablyNotPresent", data |-> None, errors |-> errors]

IdleFrame ==
    [entry |-> "none", pc |-> "idle", key |-> "", value |-> <<>>,
     put_behaviour |-> NoBehaviour, operation_key |-> 0, blob_size |-> 0,
     quorum |-> 0, errors |-> EmptyMap, futs |-> <<>>, wm_futs |-> <<>>,
     result |-> NoResult, returned |-> NoResult]

\* quorum.saturating_sub(1) on usize
SaturatingSub1(q) == IF q = 0 THEN 0 ELSE q - 1

\* slip: the quorum is taken as met one answer early
QuorumMet_one_early(q) == q <= 1

\* `if quorum == 0` after the decrement (lines 187, 242, 291)
QuorumMet(q) == q = 0

\* BlobstoreWalEntry::new(key, multiplex_id, ts, operation_key, Some(blob_size));
\* the timestamp plays no part in the multiplex and is left out
BlobstoreWalEntry_new(key, mid, operation_key, blob_size) ==
    [blobstore_key |-> key, multiplex_id |-> mid,
     operation_key |-> operation_key, blob_size |-> Some(blob_size)]

(* ------------------------------------------------------------------ *)
(* Fan-out constructors                                                *)
(* ------------------------------------------------------------------ *)
\* slip: the behaviour is not handed on, every write is a put_with_status
inner_put_without_behaviour(key, value, put_behaviour) ==
    [method |-> "put_with_status", behaviour |-> NoBehaviour,
     key |-> key, value |-> value]

\* inner_put: put_explicit with the behaviour if one was given, else put_with_status
inner_put(key, value, put_behaviour) ==
    IF put_behaviour # NoBehaviour
    THEN [method |-> "put_explicit", behaviour |-> put_behaviour,
          key |-> key, value |-> value]
    ELSE [method |-> "put_with_status", behaviour |-> NoBehaviour,
          key |-> key, value |-> value]

\* inner_multi_put: one future per entry of the array, all in one FuturesUnordered
inner_multi_put(stores, key, value, put_behaviour) ==
    [s \in 1..Len(stores) |-> Fut(stores[s], inner_put(key, value, put_behaviour))]

inner_multi_get(stores, key) ==
    [s \in 1..Len(stores) |->
        Fut(stores[s], [method |-> "get", behaviour |-> NoBehaviour,
                        key |-> key, value |-> <<>>])]

\* slip: only the first blobstore of the array gets a future
inner_multi_is_present_first_only(stores, key) ==
    [s \in 1..(IF Len(stores) = 0 THEN 0 ELSE 1) |->
        Fut(stores[s], [method |-> "is_present", behaviour |-> NoBehaviour,
                        key |-> key, value |-> <<>>])]

inner_multi_is_present(stores, key) ==
    [s \in 1..Len(stores) |->
        Fut(stores[s], [method |-> "is_present", behaviour |-> NoBehaviour,
                        key |-> key, value |-> <<>>])]

\* slip: the stream is dropped where it should have been spawned
spawn_stream_completion_drops(futs) ==
    [s \in DOMAIN futs |->
        IF futs[s].st = "pending" THEN [futs[s] EXCEPT !.st = "dropped"]
        ELSE IF futs[s].st = "ready" THEN [futs[s] EXCEPT !.st = "unread"]
        ELSE futs[s]]

\* spawn_stream_completion: the stream moves into a spawned task that polls it
\* to the end and throws every output away
spawn_stream_completion(futs) ==
    [s \in DOMAIN futs |->
        IF futs[s].st = "pending" THEN [futs[s] EXCEPT !.st = "bg"]
        ELSE IF futs[s].st = "ready" THEN [futs[s] EXCEPT !.st = "unread"]
        ELSE futs[s]]

\* slip: the futures still in the stream are handed on instead of dropped
drop_stream_detaches(futs) ==
    [s \in DOMAIN futs |->
        IF futs[s].st = "pending" THEN [futs[s] EXCEPT !.st = "bg"]
        ELSE IF futs[s].st = "ready" THEN [futs[s] EXCEPT !.st = "unread"]
        ELSE futs[s]]

\* dropping a FuturesUnordered drops every future still in it
drop_stream(futs) ==
    [s \in DOMAIN futs |->
        IF futs[s].st = "pending" THEN [futs[s] EXCEPT !.st = "dropped"]
        ELSE IF futs[s].st = "ready" THEN [futs[s] EXCEPT !.st = "unread"]
        ELSE futs[s]]

\* the stream yields Some(output) while a future is left in it
StreamLive(futs) == \E s \in DOMAIN futs : futs[s].st \in {"pending", "ready"}

(* ------------------------------------------------------------------ *)
(* The underlying blobstores (environment)                             *)
(* ------------------------------------------------------------------ *)
\* what a single blobstore does with a successful put: whether it writes,
\* and the OverwriteStatus it reports
BackendPut(content, req) ==
    IF req.method = "put_with_status" \/ req.behaviour = "Overwrite"
    THEN [write |-> TRUE, status |-> "NotChecked"]
    ELSE IF content = None
         THEN [write |-> TRUE, status |-> "NewKey"]
         ELSE IF req.behaviour = "IfAbsent"
              THEN [write |-> FALSE, status |-> "PreventedOverwrite"]
              ELSE [write |-> TRUE, status |-> "Overwrote"]

\* the outputs a blobstore holding `content` under the key may produce for
\* the request of future `fut` in slot s (an error carries the slot it is from)
BackendOutputs(content, fut, s) ==
    LET failed == [fut EXCEPT !.ok = FALSE, !.val = "Err", !.err = <<"err", s>>]
    IN  CASE fut.req.method \in {"put_with_status", "put_explicit"} ->
               {[fut EXCEPT !.ok = TRUE, !.val = BackendPut(content, fut.req).status],
                failed}
          [] fut.req.method = "get" ->
               {[fut EXCEPT !.ok = TRUE,
                            !.val = IF content = None THEN "None" ELSE "Some",
                            !.data = content],
                failed}
          [] OTHER ->
               {[fut EXCEPT !.ok = TRUE,
                            !.val = IF content = None THEN "Absent" ELSE "Present"],
                [fut EXCEPT !.ok = TRUE, !.val = "ProbablyNotPresent",
                            !.err = <<"diag", s>>],
                failed}

\* the content of one blobstore after it produced `out`
BackendContent(contents, out) ==
    IF /\ out.ok
       /\ out.req.method \in {"put_with_status", "put_explicit"}
       /\ BackendPut(contents[out.req.key], out.req).write
    THEN [contents EXCEPT ![out.req.key] = Some(out.req.value)]
    ELSE contents

\* the futures a returning frame handed to spawn_stream_completion
Spawned(f) ==
    {[operation_key |-> f.operation_key, wm |-> FALSE, slot |-> s,
      fut |-> f.futs[s]] : s \in {x \in DOMAIN f.futs : f.futs[x].st = "bg"}}
    \cup
    {[operation_key |-> f.operation_key, wm |-> TRUE, slot |-> j,
      fut |-> f.wm_futs[j]] : j \in {x \in DOMAIN f.wm_futs : f.wm_futs[x].st = "bg"}}

(* ------------------------------------------------------------------ *)
(* put_impl                                                            *)
(* ------------------------------------------------------------------ *)
\* slip: the main puts are prepared and polled together with the log call
put_impl_begin_puts_first(entry, key, value, put_behaviour, operation_key) ==
    [IdleFrame EXCEPT !.entry = entry, !.pc = "wal", !.key = key, !.value = value,
                      !.put_behaviour = put_behaviour,
                      !.operation_key = operation_key,
                      !.blob_size = Len(value),
                      !.futs = inner_multi_put(blobstores, key, value, put_behaviour)]

\* slip: the operation key is not minted per call
put_impl_begin_fixed_operation_key(entry, key, value, put_behaviour, operation_key) ==
    [IdleFrame EXCEPT !.entry = entry, !.pc = "wal", !.key = key, !.value = value,
                      !.put_behaviour = put_behaviour,
                      !.operation_key = 1,
                      !.blob_size = Len(value)]

\* lines 151-163: mint the operation key, size the blob, build the WAL entry;
\* the frame then waits for wal_queue.log
put_impl_begin(entry, key, value, put_behaviour, operation_key) ==
    [IdleFrame EXCEPT !.entry = entry, !.pc = "wal", !.key = key, !.value = value,
                      !.put_behaviour = put_behaviour,
                      !.operation_key = operation_key,
                      !.blob_size = Len(value)]

\* slip: the entry is built without the size of the blob
put_impl_log_entry_no_size(f) ==
    [BlobstoreWalEntry_new(f.key, multiplex_id, f.operation_key, f.blob_size)
        EXCEPT !.blob_size = None]

put_impl_log_entry(f) ==
    BlobstoreWalEntry_new(f.key, multiplex_id, f.operation_key, f.blob_size)

\* Blobstore::put (lines 346-354): `?` passes the error of put_with_status on,
\* a status becomes unit; put_with_status and put_explicit return put_impl's value
Blobstore_put(entry, result) ==
    IF entry = "put" /\ result.t = "Ok" THEN OkResult("Unit", None) ELSE result

\* put_impl returns `result` to the entry point, which returns to the caller
put_return(f, result) ==
    [f EXCEPT !.pc = "done", !.result = result,
              !.returned = Blobstore_put(f.entry, result)]

\* slip: the error of the log call is dropped and the puts go ahead
put_impl_wal_failure_ignored(f) ==
    [f EXCEPT !.pc = "loop",
              !.futs = inner_multi_put(blobstores, f.key, f.value, f.put_behaviour),
              !.quorum = quorum.write,
              !.errors = EmptyMap]

\* lines 164-169: the log call failed: `?` returns the wrapped error
put_impl_wal_failed(f) ==
    put_return(f, ErrResult("WalError", EmptyMap))

\* slip: the write-mostly blobstores are put into the main fan-out
put_impl_launch_all_stores(f) ==
    [f EXCEPT !.pc = "loop",
              !.futs = inner_multi_put(blobstores \o write_mostly_blobstores,
                                       f.key, f.value, f.put_behaviour),
              !.quorum = quorum.write,
              !.errors = EmptyMap]

\* lines 171-182: the log call returned Ok: prepare the main puts, the
\* quorum counter and the error map
put_impl_launch(f) ==
    [f EXCEPT !.pc = "loop",
              !.futs = inner_multi_put(blobstores, f.key, f.value, f.put_behaviour),
              !.quorum = quorum.write,
              !.errors = EmptyMap]

\* slip: any recorded error is reported as AllFailed
put_impl_classify_any_error(f) ==
    put_return(f,
        IF Cardinality(DOMAIN f.errors) >= 1
        THEN ErrResult("AllFailed", f.errors)
        ELSE ErrResult("SomePutsFailed", f.errors))

\* slip: the write-mostly puts are launched although the quorum was missed
put_impl_classify_writes_mostly(f) ==
    put_return(
        [f EXCEPT !.wm_futs = spawn_stream_completion(
                      inner_multi_put(write_mostly_blobstores, f.key, f.value,
                                      f.put_behaviour))],
        IF Cardinality(DOMAIN f.errors) = Len(blobstores)
        THEN ErrResult("AllFailed", f.errors)
        ELSE ErrResult("SomePutsFailed", f.errors))

\* lines 211-221: the stream is exhausted without the quorum
put_impl_classify(f) ==
    put_return(f,
        IF Cardinality(DOMAIN f.errors) = Len(blobstores)
        THEN ErrResult("AllFailed", f.errors)
        ELSE ErrResult("SomePutsFailed", f.errors))

\* slip: the loop drains the whole stream before it returns Ok
put_impl_step_drains_first(f, s, wm_stores) ==
    LET out == f.futs[s]
        taken == [f EXCEPT !.futs[s].st = "taken"]
        finish(g) ==
            IF StreamLive(g.futs) THEN g
            ELSE IF g.quorum = 0
                 THEN put_return(
                        [g EXCEPT !.wm_futs = spawn_stream_completion(
                                      inner_multi_put(wm_stores, f.key, f.value,
                                                      f.put_behaviour))],
                        OkResult("NotChecked", None))
                 ELSE put_impl_classify(g)
    IN  IF out.ok
        THEN finish([taken EXCEPT !.quorum = SaturatingSub1(f.quorum)])
        ELSE finish([taken EXCEPT
                       !.errors = MapInsert(f.errors, out.bs_id, out.err)])

\* slip: the put returns the status of the write that met the quorum
put_impl_step_returns_status(f, s, wm_stores) ==
    LET out == f.futs[s]
        taken == [f EXCEPT !.futs[s].st = "taken"]
        go_on(g) == IF StreamLive(g.futs) THEN g ELSE put_impl_classify(g)
    IN  IF out.ok
        THEN LET q == SaturatingSub1(f.quorum)
             IN  IF QuorumMet(q)
                 THEN put_return(
                        [taken EXCEPT
                           !.quorum = q,
                           !.futs = spawn_stream_completion(taken.futs),
                           !.wm_futs = spawn_stream_completion(
                               inner_multi_put(wm_stores, f.key, f.value,
                                               f.put_behaviour))],
                        OkResult(out.val, None))
                 ELSE go_on([taken EXCEPT !.quorum = q])
        ELSE go_on([taken EXCEPT !.errors = MapInsert(f.errors, out.bs_id, out.err)])

\* slip: at quorum the write-mostly puts are not launched
put_impl_step_skips_write_mostly(f, s, wm_stores) ==
    LET out == f.futs[s]
        taken == [f EXCEPT !.futs[s].st = "taken"]
        go_on(g) == IF StreamLive(g.futs) THEN g ELSE put_impl_classify(g)
    IN  IF out.ok
        THEN LET q == SaturatingSub1(f.quorum)
             IN  IF QuorumMet(q)
                 THEN put_return(
                        [taken EXCEPT
                           !.quorum = q,
                           !.futs = spawn_stream_completion(taken.futs)],
                        OkResult("NotChecked", None))
                 ELSE go_on([taken EXCEPT !.quorum = q])
        ELSE go_on([taken EXCEPT !.errors = MapInsert(f.errors, out.bs_id, out.err)])

\* lines 183-209: one turn of the loop on the output of future s, for a
\* multiplex whose write-mostly array is wm_stores; when that was the last
\* future, next() yields None at once and the loop ends
put_impl_step(f, s, wm_stores) ==
    LET out == f.futs[s]
        taken == [f EXCEPT !.futs[s].st = "taken"]
        go_on(g) == IF StreamLive(g.futs) THEN g ELSE put_impl_classify(g)
    IN  IF out.ok
        THEN LET q == SaturatingSub1(f.quorum)
             IN  IF QuorumMet(q)
                 THEN put_return(
                        [taken EXCEPT
                           !.quorum = q,
                           !.futs = spawn_stream_completion(taken.futs),
                           !.wm_futs = spawn_stream_completion(
                               inner_multi_put(wm_stores, f.key, f.value,
                                               f.put_behaviour))],
                        OkResult("NotChecked", None))
                 ELSE go_on([taken EXCEPT !.quorum = q])
        ELSE go_on([taken EXCEPT !.errors = MapInsert(f.errors, out.bs_id, out.err)])

put_impl_next(f, s) == put_impl_step(f, s, write_mostly_blobstores)

(* ------------------------------------------------------------------ *)
(* get_impl                                                            *)
(* ------------------------------------------------------------------ *)
\* slip: a returning read hands its stream to a task, as put does
read_return_spawns(f, result) ==
    [f EXCEPT !.pc = "done", !.result = result, !.returned = result,
              !.futs = spawn_stream_completion(f.futs)]

\* every return of get_impl and is_present_impl drops the stream
read_return(f, result) ==
    [f EXCEPT !.pc = "done", !.result = result, !.returned = result,
              !.futs = drop_stream(f.futs)]

\* slip: the loop of get_impl counts down from the write quorum
get_impl_begin_write_quorum(key) ==
    [IdleFrame EXCEPT !.entry = "get", !.pc = "loop", !.key = key,
                      !.futs = inner_multi_get(blobstores, key),
                      !.quorum = quorum.write,
                      !.errors = EmptyMap]

\* lines 229-234
get_impl_begin(key) ==
    [IdleFrame EXCEPT !.entry = "get", !.pc = "loop", !.key = key,
                      !.futs = inner_multi_get(blobstores, key),
                      !.quorum = quorum.read,
                      !.errors = EmptyMap]

\* slip: any recorded error is reported as AllFailed
get_impl_classify_any_error(f) ==
    read_return(f,
        IF Cardinality(DOMAIN f.errors) >= 1
        THEN ErrResult("AllFailed", f.errors)
        ELSE ErrResult("SomeGetsFailed", f.errors))

\* lines 257-269
get_impl_classify(f) ==
    read_return(f,
        IF Cardinality(DOMAIN f.errors) = Len(blobstores)
        THEN ErrResult("AllFailed", f.errors)
        ELSE ErrResult("SomeGetsFailed", f.errors))

\* slip: the error of a failed attempt is not kept
get_impl_next_forgets_error(f, s) ==
    LET out == f.futs[s]
        taken == [f EXCEPT !.futs[s].st = "taken"]
        go_on(g) == IF StreamLive(g.futs) THEN g ELSE get_impl_classify(g)
    IN  IF out.ok /\ out.val = "Some"
        THEN read_return(taken, OkResult("Some", out.data))
        ELSE IF out.ok
             THEN LET q == SaturatingSub1(f.quorum)
                  IN  IF QuorumMet(q)
                      THEN read_return([taken EXCEPT !.quorum = q],
                                       OkResult("None", None))
                      ELSE go_on([taken EXCEPT !.quorum = q])
             ELSE go_on(taken)

\* slip: the first error ends the get, as if the loop gave up on the others
get_impl_next_fails_fast(f, s) ==
    LET out == f.futs[s]
        taken == [f EXCEPT !.futs[s].st = "taken"]
        go_on(g) == IF StreamLive(g.futs) THEN g ELSE get_impl_classify(g)
    IN  IF out.ok /\ out.val = "Some"
        THEN read_return(taken, OkResult("Some", out.data))
        ELSE IF out.ok
             THEN LET q == SaturatingSub1(f.quorum)
                  IN  IF QuorumMet(q)
                      THEN read_return([taken EXCEPT !.quorum = q],
                                       OkResult("None", None))
                      ELSE go_on([taken EXCEPT !.quorum = q])
             ELSE get_impl_classify([taken EXCEPT
                           !.errors = MapInsert(f.errors, out.bs_id, out.err)])

\* lines 235-252
get_impl_next(f, s) ==
    LET out == f.futs[s]
        taken == [f EXCEPT !.futs[s].st = "taken"]
        go_on(g) == IF StreamLive(g.futs) THEN g ELSE get_impl_classify(g)
    IN  IF out.ok /\ out.val = "Some"
        THEN read_return(taken, OkResult("Some", out.data))
        ELSE IF out.ok
             THEN LET q == SaturatingSub1(f.quorum)
                  IN  IF QuorumMet(q)
                      THEN read_return([taken EXCEPT !.quorum = q],
                                       OkResult("None", None))
                      ELSE go_on([taken EXCEPT !.quorum = q])
             ELSE go_on([taken EXCEPT
                           !.errors = MapInsert(f.errors, out.bs_id, out.err)])

(* ------------------------------------------------------------------ *)
(* is_present_impl                                                     *)
(* ------------------------------------------------------------------ *)
\* lines 278-283
is_present_impl_begin(key) ==
    [IdleFrame EXCEPT !.entry = "is_present", !.pc = "loop", !.key = key,
                      !.futs = inner_multi_is_present(blobstores, key),
                      !.quorum = quorum.read,
                      !.errors = EmptyMap]

\* lines 316-324
is_present_impl_classify(f) ==
    read_return(f,
        IF Cardinality(DOMAIN f.errors) = Len(blobstores)
        THEN ErrResult("AllFailed", f.errors)
        ELSE ProbablyResult(f.errors))

\* slip: ProbablyNotPresent is counted like Absent
is_present_impl_next_counts_probably(f, s) ==
    LET out == f.futs[s]
        taken == [f EXCEPT !.futs[s].st = "taken"]
        go_on(g) == IF StreamLive(g.futs) THEN g ELSE is_present_impl_classify(g)
    IN  IF out.ok /\ out.val = "Present"
        THEN read_return(taken, OkResult("Present", None))
        ELSE IF out.ok
             THEN LET q == SaturatingSub1(f.quorum)
                  IN  IF QuorumMet(q)
                      THEN read_return([taken EXCEPT !.quorum = q],
                                       OkResult("Absent", None))
                      ELSE go_on([taken EXCEPT !.quorum = q])
             ELSE go_on([taken EXCEPT
                           !.errors = MapInsert(f.errors, out.bs_id, out.err)])

\* lines 284-307
is_present_impl_next(f, s) ==
    LET out == f.futs[s]
        taken == [f EXCEPT !.futs[s].st = "taken"]
        go_on(g) == IF StreamLive(g.futs) THEN g ELSE is_present_impl_classify(g)
    IN  IF out.ok /\ out.val = "Present"
        THEN read_return(taken, OkResult("Present", None))
        ELSE IF out.ok /\ out.val = "Absent"
             THEN LET q == SaturatingSub1(f.quorum)
                  IN  IF QuorumMet(q)
                      THEN read_return([taken EXCEPT !.quorum = q],
                                       OkResult("Absent", None))
                      ELSE go_on([taken EXCEPT !.quorum = q])
             ELSE go_on([taken EXCEPT
                           !.errors = MapInsert(f.errors, out.bs_id, out.err)])

(* ------------------------------------------------------------------ *)
(* Actions                                                             *)
(* ------------------------------------------------------------------ *)
Clients == DOMAIN calls

\* client c is between calls and has one more to make
CanCall(c) ==
    /\ calls[c].pc \in {"idle", "done", "cancelled"}
    /\ script[c] # <<>>

\* put, put_with_status (no behaviour) and put_explicit (a behaviour) enter put_impl
PutCall(c) ==
    /\ CanCall(c)
    /\ Head(script[c]).entry \in PutEntries
    /\ LET a == Head(script[c])
       IN  calls' = [calls EXCEPT ![c] =
                       put_impl_begin(a.entry, a.key, a.value, a.behaviour,
                                      next_operation_key)]
    /\ next_operation_key' = next_operation_key + 1
    /\ script' = [script EXCEPT ![c] = Tail(script[c])]
    /\ UNCHANGED <<config, wal_queue, store, wm_store, tasks, acked, completed, unpolled, qargs, qresult>>

\* wal_queue.log commits the entry and returns Ok
WalLogOk(c) ==
    /\ calls[c].pc = "wal"
    /\ wal_queue' = Append(wal_queue, put_impl_log_entry(calls[c]))
    /\ calls' = [calls EXCEPT ![c] = put_impl_launch(calls[c])]
    /\ UNCHANGED <<config, next_operation_key, store, wm_store, tasks, script,
                   acked, completed, unpolled, qargs, qresult>>

\* wal_queue.log returns an error; nothing was logged
WalLogErr(c) ==
    /\ calls[c].pc = "wal"
    /\ calls' = [calls EXCEPT ![c] = put_impl_wal_failed(calls[c])]
    /\ tasks' = tasks \cup Spawned(calls'[c])
    /\ UNCHANGED <<config, wal_queue, next_operation_key, store, wm_store, script,
                   acked, completed, unpolled, qargs, qresult>>

PutNext(c, s) ==
    /\ calls[c].pc = "loop"
    /\ calls[c].entry \in PutEntries
    /\ s \in DOMAIN calls[c].futs
    /\ calls[c].futs[s].st = "ready"
    /\ calls' = [calls EXCEPT ![c] = put_impl_next(calls[c], s)]
    /\ tasks' = tasks \cup Spawned(calls'[c])
    /\ acked' = IF calls'[c].returned.t = "Ok"
                THEN acked \cup {calls[c].key} ELSE acked
    /\ UNCHANGED <<config, wal_queue, next_operation_key, store, wm_store, script,
                   completed, unpolled, qargs, qresult>>

GetCall(c) ==
    /\ CanCall(c)
    /\ Head(script[c]).entry = "get"
    /\ calls' = [calls EXCEPT ![c] = get_impl_begin(Head(script[c]).key)]
    /\ script' = [script EXCEPT ![c] = Tail(script[c])]
    /\ UNCHANGED <<config, wal_queue, next_operation_key, store, wm_store, tasks,
                   acked, completed, unpolled, qargs, qresult>>

GetNext(c, s) ==
    /\ calls[c].pc = "loop"
    /\ calls[c].entry = "get"
    /\ s \in DOMAIN calls[c].futs
    /\ calls[c].futs[s].st = "ready"
    /\ calls' = [calls EXCEPT ![c] = get_impl_next(calls[c], s)]
    /\ UNCHANGED <<config, wal_queue, next_operation_key, store, wm_store, tasks,
                   script, acked, completed, unpolled, qargs, qresult>>

IsPresentCall(c) ==
    /\ CanCall(c)
    /\ Head(script[c]).entry = "is_present"
    /\ calls' = [calls EXCEPT ![c] = is_present_impl_begin(Head(script[c]).key)]
    /\ script' = [script EXCEPT ![c] = Tail(script[c])]
    /\ UNCHANGED <<config, wal_queue, next_operation_key, store, wm_store, tasks,
                   acked, completed, unpolled, qargs, qresult>>

IsPresentNext(c, s) ==
    /\ calls[c].pc = "loop"
    /\ calls[c].entry = "is_present"
    /\ s \in DOMAIN calls[c].futs
    /\ calls[c].futs[s].st = "ready"
    /\ calls' = [calls EXCEPT ![c] = is_present_impl_next(calls[c], s)]
    /\ UNCHANGED <<config, wal_queue, next_operation_key, store, wm_store, tasks,
                   script, acked, completed, unpolled, qargs, qresult>>

\* the normal blobstore of slot s answers the request of the call of client c
\* while the caller polls the stream
BlobstoreAnswers(c, s) ==
    /\ calls[c].pc = "loop"
    /\ s \in DOMAIN calls[c].futs
    /\ calls[c].futs[s].st = "pending"
    /\ \E out \in BackendOutputs(store[s][calls[c].futs[s].req.key],
                                 calls[c].futs[s], s) :
          /\ store' = [store EXCEPT ![s] = BackendContent(store[s], out)]
          /\ calls' = [calls EXCEPT ![c].futs[s] = [out EXCEPT !.st = "ready"]]
    /\ UNCHANGED <<config, wal_queue, next_operation_key, wm_store, tasks, script,
                   acked, completed, unpolled, qargs, qresult>>

\* a blobstore answers a future of a spawned task: for_each throws the output away
TaskAnswers(t) ==
    /\ t \in tasks
    /\ tasks' = tasks \ {t}
    /\ \E out \in BackendOutputs(IF t.wm THEN wm_store[t.slot][t.fut.req.key]
                                         ELSE store[t.slot][t.fut.req.key],
                                 t.fut, t.slot) :
          /\ IF t.wm
             THEN /\ wm_store' = [wm_store EXCEPT ![t.slot] =
                                    BackendContent(wm_store[t.slot], out)]
                  /\ UNCHANGED store
             ELSE /\ store' = [store EXCEPT ![t.slot] =
                                 BackendContent(store[t.slot], out)]
                  /\ UNCHANGED wm_store
          /\ completed' = completed \cup {[t EXCEPT !.fut = out]}
    /\ UNCHANGED <<config, wal_queue, next_operation_key, calls, script, acked,
                   unpolled, qargs, qresult>>

\* the caller drops the future of the call while it is suspended
Cancel(c) ==
    /\ calls[c].pc \in {"wal", "loop"}
    /\ calls' = [calls EXCEPT ![c] =
                   [calls[c] EXCEPT !.pc = "cancelled",
                                    !.futs = drop_stream(calls[c].futs)]]
    /\ UNCHANGED <<config, wal_queue, next_operation_key, store, wm_store, tasks,
                   script, acked, completed, unpolled, qargs, qresult>>

(* ------------------------------------------------------------------ *)
(* Specifications                                                      *)
(* ------------------------------------------------------------------ *)
NoQuorumArgs == <<0, 0>>
NotBuilt ==
    [built |-> FALSE, ok |-> FALSE, blobstores |-> <<>>,
     quorum |-> [read |-> 0, write |-> 0]]

PutArgs ==
    {[entry |-> e, key |-> k, value |-> v, behaviour |-> b] :
        e \in {"put", "put_with_status"}, k \in Keys, v \in Values,
        b \in {NoBehaviour}}
    \cup
    {[entry |-> "put_explicit", key |-> k, value |-> v, behaviour |-> b] :
        k \in Keys, v \in Values, b \in PutBehaviours}

ReadArgs ==
    {[entry |-> e, key |-> k, value |-> <<>>, behaviour |-> NoBehaviour] :
        e \in {"get", "is_present"}, k \in Keys}

\* every multiplex WalMultiplexedBlobstore::new accepts within the bounds (normal
\* ids 1..n, write-mostly ids 11..), over empty blobstores and an empty WAL
Built ==
    /\ \E n \in 0..MaxStores, w \in 0..MaxStores, m \in 0..MaxWriteMostly :
          LET mux == WalMultiplexedBlobstore_new([s \in 1..n |-> s],
                                                 [j \in 1..m |-> 10 + j], w)
          IN  /\ mux.ok
              /\ blobstores = mux.blobstores
              /\ write_mostly_blobstores = mux.write_mostly_blobstores
              /\ quorum = mux.quorum
    /\ multiplex_id = 1
    /\ wal_queue = <<>>
    /\ next_operation_key = 1
    /\ store = [s \in DOMAIN blobstores |-> [k \in Keys |-> None]]
    /\ wm_store = [j \in DOMAIN write_mostly_blobstores |-> [k \in Keys |-> None]]
    /\ tasks = {}
    /\ acked = {}
    /\ completed = {}
    /\ unpolled = {}
    /\ qargs = NoQuorumArgs
    /\ qresult = NotBuilt

\* one client making one call
Init ==
    /\ Built
    /\ calls = <<IdleFrame>>
    /\ \E a \in PutArgs \cup ReadArgs : script = <<(<<a>>)>>

Next ==
    \/ \E c \in Clients : PutCall(c)
    \/ \E c \in Clients : WalLogOk(c)
    \/ \E c \in Clients : WalLogErr(c)
    \/ \E c \in Clients : GetCall(c)
    \/ \E c \in Clients : IsPresentCall(c)
    \/ \E c \in Clients, s \in DOMAIN blobstores : PutNext(c, s)
    \/ \E c \in Clients, s \in DOMAIN blobstores : GetNext(c, s)
    \/ \E c \in Clients, s \in DOMAIN blobstores : IsPresentNext(c, s)
    \/ \E c \in Clients, s \in DOMAIN blobstores : BlobstoreAnswers(c, s)
    \/ \E c \in Clients : Cancel(c)
    \/ \E t \in tasks : TaskAnswers(t)

Spec == Init /\ [][Next]_vars

\* one client making a put_with_status and then one more call: a read of either
\* key, or a put_explicit of another value under the same key
SeqInit ==
    /\ Built
    /\ calls = <<IdleFrame>>
    /\ \E a \in {x \in PutArgs : x.entry = "put_with_status" /\ x.key = "k1"
                                 /\ x.value = <<7>>},
          b \in ReadArgs \cup {x \in PutArgs : x.entry = "put_explicit"
                                 /\ x.key = "k1" /\ x.value = <<8, 9>>} :
          script = <<(<<a, b>>)>>

SeqSpec == SeqInit /\ [][Next]_vars

\* the runtime wakes the task of a call whenever an output is ready in its
\* stream, so the loops go on; nothing makes a blobstore or the WAL answer
LoopFairness ==
    /\ WF_vars(\E c \in Clients, s \in DOMAIN blobstores : PutNext(c, s))
    /\ WF_vars(\E c \in Clients, s \in DOMAIN blobstores : GetNext(c, s))
    /\ WF_vars(\E c \in Clients, s \in DOMAIN blobstores : IsPresentNext(c, s))

FairSpec == Spec /\ LoopFairness

\* largest normal array tried with freely chosen BlobstoreIds
MaxDupStores == 2

\* WalMultiplexedBlobstore::new takes the ids as given: every array of ids,
\* also one that names an id twice, over its own blobstore per slot
BuiltAnyIds ==
    /\ \E n \in 0..MaxDupStores, w \in 0..MaxDupStores, m \in 0..MaxWriteMostly :
          \E ids \in [1..n -> 1..MaxDupStores] :
              LET mux == WalMultiplexedBlobstore_new(ids, [j \in 1..m |-> 10 + j], w)
              IN  /\ mux.ok
                  /\ blobstores = mux.blobstores
                  /\ write_mostly_blobstores = mux.write_mostly_blobstores
                  /\ quorum = mux.quorum
    /\ multiplex_id = 1
    /\ wal_queue = <<>>
    /\ next_operation_key = 1
    /\ store = [s \in DOMAIN blobstores |-> [k \in Keys |-> None]]
    /\ wm_store = [j \in DOMAIN write_mostly_blobstores |-> [k \in Keys |-> None]]
    /\ tasks = {}
    /\ acked = {}
    /\ completed = {}
    /\ unpolled = {}
    /\ qargs = NoQuorumArgs
    /\ qresult = NotBuilt

\* one client making one call on such a multiplex
AnyIdsInit ==
    /\ BuiltAnyIds
    /\ calls = <<IdleFrame>>
    /\ \E a \in PutArgs \cup ReadArgs : script = <<(<<a>>)>>

AnyIdsSpec == AnyIdsInit /\ [][Next]_vars

\* two callers on one multiplex (ids as given): the first makes a put, the
\* second the same put or a read of the key; their calls run concurrently
TwoCallsInit ==
    /\ BuiltAnyIds
    /\ calls = <<IdleFrame, IdleFrame>>
    /\ \E a \in {x \in PutArgs : x.entry = "put_with_status" /\ x.key = "k1"
                                 /\ x.value = <<7>>} :
          \E b \in {a} \cup {x \in ReadArgs : x.key = "k1"} :
              script = <<(<<a>>), (<<b>>)>>

TwoCallsSpec == TwoCallsInit /\ [][Next]_vars

\* tokio::spawn: the runtime keeps polling a spawned task whoever returned or
\* was dropped, so an attempt owned by a task completes once its blobstore
\* answers; the blobstores are taken to answer the attempts of spawned tasks
TaskFairness == WF_vars(\E t \in tasks : TaskAnswers(t))

BgFairSpec == Spec /\ LoopFairness /\ TaskFairness

(* ------------------------------------------------------------------ *)
(* Construction                                                        *)
(* ------------------------------------------------------------------ *)
\* WalMultiplexedBlobstore::new is applied to qargs[1] normal blobstores and the
\* write quorum qargs[2]; nothing else moves
QuorumNew ==
    /\ ~qresult.built
    /\ LET mux == WalMultiplexedBlobstore_new([s \in 1..qargs[1] |-> s], <<>>,
                                              qargs[2])
       IN  qresult' = [built |-> TRUE, ok |-> mux.ok,
                       blobstores |-> mux.blobstores, quorum |-> mux.quorum]
    /\ UNCHANGED <<config, wal_queue, next_operation_key, store, wm_store, calls,
                   tasks, script, acked, completed, unpolled, qargs>>

QuorumInit ==
    /\ qargs \in (0..MaxQuorumArg) \X (0..MaxQuorumArg)
    /\ qresult = NotBuilt
    /\ multiplex_id = 1
    /\ blobstores = <<>>
    /\ write_mostly_blobstores = <<>>
    /\ quorum = [read |-> 0, write |-> 0]
    /\ wal_queue = <<>>
    /\ next_operation_key = 1
    /\ store = <<>>
    /\ wm_store = <<>>
    /\ calls = <<>>
    /\ tasks = {}
    /\ script = <<>>
    /\ acked = {}
    /\ completed = {}
    /\ unpolled = {}

QuorumSpec == QuorumInit /\ [][QuorumNew]_vars

(* ------------------------------------------------------------------ *)
(* Vocabulary of the properties                                        *)
(* ------------------------------------------------------------------ *)
N == Len(blobstores)
W == quorum.write
\* the read quorum as the specification derives it
R == N - W + 1

IsPut(f) == f.entry \in PutEntries
\* the blobstore of the future has answered
Answered(fut) == fut.st \in {"ready", "taken", "unread"}
AnsweredOk(f) == {s \in DOMAIN f.futs : Answered(f.futs[s]) /\ f.futs[s].ok}
AnsweredErr(f) == {s \in DOMAIN f.futs : Answered(f.futs[s]) /\ ~f.futs[s].ok}
AnsweredVal(f, v) ==
    {s \in DOMAIN f.futs : Answered(f.futs[s]) /\ f.futs[s].ok /\ f.futs[s].val = v}
TakenOk(f) == {s \in DOMAIN f.futs : f.futs[s].st = "taken" /\ f.futs[s].ok}
TakenVal(f, v) ==
    {s \in DOMAIN f.futs : f.futs[s].st = "taken" /\ f.futs[s].ok /\ f.futs[s].val = v}
AllAnswered(f) ==
    /\ Len(f.futs) = N
    /\ \A s \in DOMAIN f.futs : Answered(f.futs[s])
\* the WAL holds an entry for this key and operation key
Logged(key, operation_key) ==
    \E i \in DOMAIN wal_queue :
        /\ wal_queue[i].blobstore_key = key
        /\ wal_queue[i].operation_key = operation_key

(* ------------------------------------------------------------------ *)
(* C1  WAL before write                                                *)
(* ------------------------------------------------------------------ *)
\* C1: whenever a put attempt of an operation has been issued to a normal or a
\* write-mostly blobstore (a future of the call's streams, or one living on in
\* a spawned task), the WAL already holds the entry with the operation's key and
\* operation key; so does every put that has returned Ok.
C1_WalBeforeWrite ==
    /\ \A c \in Clients :
          LET f == calls[c]
          IN  IsPut(f) =>
                /\ (f.futs # <<>> \/ f.wm_futs # <<>>) => Logged(f.key, f.operation_key)
                /\ f.returned.t = "Ok" => Logged(f.key, f.operation_key)
                /\ f.pc = "wal" => ~Logged(f.key, f.operation_key)
    /\ \A t \in tasks : Logged(t.fut.req.key, t.operation_key)

\* a put has returned Ok after writing normal blobstores and spawning a
\* write-mostly put
C1_Witness ==
    \E c \in Clients :
        /\ IsPut(calls[c])
        /\ calls[c].returned.t = "Ok"
        /\ \E t \in tasks : t.wm
        /\ \E s \in DOMAIN store : store[s][calls[c].key] # None

(* ------------------------------------------------------------------ *)
(* C2  a failed WAL append writes nothing                              *)
(* ------------------------------------------------------------------ *)
C2_NothingIssued(f) ==
    /\ f.pc = "done"
    /\ f.returned.t = "Err"
    /\ f.returned.v = "WalError"
    /\ f.futs = <<>>
    /\ f.wm_futs = <<>>
    /\ \A t \in tasks : t.operation_key # f.operation_key

\* C2: the step in which the log call fails ends the put with an error, issues
\* no put to any normal or write-mostly blobstore and leaves every blobstore as
\* it was; and a put that ended so never has a future or a spawned task.
C2_WalFailureWritesNothing ==
    /\ [](\A c \in Clients :
            (IsPut(calls[c]) /\ calls[c].returned.v = "WalError")
                => C2_NothingIssued(calls[c]))
    /\ [][\A c \in Clients :
            WalLogErr(c) =>
                /\ C2_NothingIssued(calls[c])'
                /\ store' = store
                /\ wm_store' = wm_store
                /\ tasks' = tasks
                /\ wal_queue' = wal_queue]_vars

C2_Witness ==
    \E c \in Clients :
        /\ calls[c].returned.v = "WalError"
        /\ \A s \in DOMAIN store : \A k \in Keys : store[s][k] = None

(* ------------------------------------------------------------------ *)
(* C3  write quorum                                                    *)
(* ------------------------------------------------------------------ *)
\* C3: a put that has returned Ok has consumed exactly W successes of distinct
\* normal blobstores, the last of them in the step that returned; a put still
\* in its loop has consumed fewer than W; and no write-mostly put exists before
\* the return, so none is ever counted.
C3_WriteQuorum ==
    \A c \in Clients :
        LET f == calls[c]
        IN  IsPut(f) =>
              /\ f.returned.t = "Ok" =>
                    /\ Cardinality(TakenOk(f)) = W
                    /\ \A s \in TakenOk(f) : f.futs[s].bs_id = blobstores[s]
                    /\ f.quorum = 0
              /\ f.pc = "loop" =>
                    /\ Cardinality(TakenOk(f)) < W
                    /\ f.quorum = W - Cardinality(TakenOk(f))
                    /\ f.wm_futs = <<>>
              /\ f.returned.t # "Ok" => f.wm_futs = <<>>

\* a put returned Ok on a multiplex with W >= 2 while an error had been consumed
\* and a write-mostly blobstore exists
C3_Witness ==
    \E c \in Clients :
        /\ IsPut(calls[c])
        /\ calls[c].returned.t = "Ok"
        /\ W >= 2
        /\ DOMAIN calls[c].errors # {}
        /\ calls[c].wm_futs # <<>>

(* ------------------------------------------------------------------ *)
(* C6  absence quorum of get                                           *)
(* ------------------------------------------------------------------ *)
\* C6: a get that has returned, all of whose N blobstores answered, R of them
\* None and the other N - R an error, returned Ok(None), whatever the order of
\* the answers; and a get returns Ok(None) only after consuming None from R
\* normal blobstores.
C6_GetAbsenceQuorum ==
    \A c \in Clients :
        LET f == calls[c]
        IN  (f.entry = "get" /\ f.pc = "done") =>
              /\ ( /\ AllAnswered(f)
                   /\ Cardinality(AnsweredVal(f, "None")) = R
                   /\ Cardinality(AnsweredErr(f)) = N - R )
                 => f.returned = OkResult("None", None)
              /\ f.returned = OkResult("None", None)
                 => Cardinality(TakenVal(f, "None")) = R

\* R blobstores answered None, the N - R >= 1 others an error, and the get
\* returned Ok(None) with an error already recorded
C6_Witness ==
    \E c \in Clients :
        LET f == calls[c]
        IN  /\ f.entry = "get"
            /\ f.pc = "done"
            /\ AllAnswered(f)
            /\ R >= 2
            /\ Cardinality(AnsweredVal(f, "None")) = R
            /\ Cardinality(AnsweredErr(f)) = N - R
            /\ DOMAIN f.errors # {}
            /\ f.returned = OkResult("None", None)

(* ------------------------------------------------------------------ *)
(* C9  quorum validity and intersection                                *)
(* ------------------------------------------------------------------ *)
\* C9: MultiplexQuorum::new, reached through WalMultiplexedBlobstore::new with N
\* normal blobstores and write quorum W, succeeds iff 1 <= W <= N (never for
\* N = 0); on success write = W and read = N - W + 1, so 1 <= read <= N,
\* read + write = N + 1, and every set of read normal blobstores meets every
\* set of write normal blobstores.
C9_QuorumValidity ==
    qresult.built =>
        LET n == qargs[1]
            w == qargs[2]
            q == qresult.quorum
        IN  /\ qresult.ok <=> (1 <= w /\ w <= n)
            /\ n = 0 => ~qresult.ok
            /\ qresult.ok =>
                  /\ Len(qresult.blobstores) = n
                  /\ q.write = w
                  /\ q.read = n - w + 1
                  /\ 1 <= q.read /\ q.read <= n
                  /\ q.read + q.write = n + 1
                  /\ \A A \in SUBSET (1..n) :
                        Cardinality(A) = q.read =>
                           \A B \in SUBSET (1..n) :
                              Cardinality(B) = q.write => A \cap B # {}

\* an accepted configuration with 1 < W < N
C9_Witness ==
    /\ qresult.built
    /\ qresult.ok
    /\ qargs[1] >= 3
    /\ 1 < qargs[2] /\ qargs[2] < qargs[1]
    /\ qresult.quorum.read >= 2

(* ------------------------------------------------------------------ *)
(* C10  classification of a failed put                                 *)
(* ------------------------------------------------------------------ *)
\* C10: a put that has returned after all N normal blobstores answered, fewer
\* than W of them with success, returned AllFailed iff all N answered with an
\* error and SomePutsFailed otherwise, and its error map holds exactly the
\* blobstores that answered with an error, each under its id with its own error.
C10_PutClassification ==
    \A c \in Clients :
        LET f == calls[c]
        IN  ( /\ IsPut(f)
              /\ f.pc = "done"
              /\ AllAnswered(f)
              /\ Cardinality(AnsweredOk(f)) < W )
            =>
              /\ f.returned.t = "Err"
              /\ f.returned.v = IF Cardinality(AnsweredErr(f)) = N
                                THEN "AllFailed" ELSE "SomePutsFailed"
              /\ DOMAIN f.returned.errors = {blobstores[s] : s \in AnsweredErr(f)}
              /\ \A s \in AnsweredErr(f) :
                    f.returned.errors[blobstores[s]] = <<"err", s>>

\* SomePutsFailed with one success and two errors on three blobstores
C10_Witness ==
    \E c \in Clients :
        LET f == calls[c]
        IN  /\ IsPut(f)
            /\ f.pc = "done"
            /\ N = 3
            /\ Cardinality(AnsweredOk(f)) = 1
            /\ Cardinality(AnsweredErr(f)) = 2
            /\ f.returned.v = "SomePutsFailed"

(* ------------------------------------------------------------------ *)
(* C4  read after write                                                *)
(* ------------------------------------------------------------------ *)
\* C4: once a put of key k has returned Ok, at least W normal blobstores hold k
\* (a blobstore that confirmed a put answers get with Some or an error and
\* is_present with Present or an error), and no later get of k returns
\* Ok(None) and no later is_present of k returns Absent, whatever the other
\* blobstores answer and in whatever order.
C4_ReadAfterWrite ==
    /\ \A k \in acked : Cardinality({s \in DOMAIN store : store[s][k] # None}) >= W
    /\ \A c \in Clients :
          LET f == calls[c]
          IN  (f.entry \in {"get", "is_present"} /\ f.key \in acked) =>
                 /\ f.returned # OkResult("None", None)
                 /\ f.returned # OkResult("Absent", None)

\* after an acknowledged put on three blobstores a get consumed None from the
\* lagging blobstore and an error, and still returned the blob
C4_Witness ==
    \E c \in Clients :
        LET f == calls[c]
        IN  /\ f.entry = "get"
            /\ f.key \in acked
            /\ N = 3
            /\ TakenVal(f, "None") # {}
            /\ DOMAIN f.errors # {}
            /\ f.returned.v = "Some"

(* ------------------------------------------------------------------ *)
(* C5  get short-circuit on success                                    *)
(* ------------------------------------------------------------------ *)
\* C5 as stated: whenever a get has returned and some normal blobstore answered
\* Some(blob), the get returned that blob, whatever the others answered and in
\* whatever order.
C5_AsStated ==
    \A c \in Clients :
        LET f == calls[c]
        IN  (f.entry = "get" /\ f.pc = "done" /\ AnsweredVal(f, "Some") # {}) =>
               /\ f.returned.v = "Some"
               /\ \E s \in AnsweredVal(f, "Some") : f.returned.data = f.futs[s].data

\* C5 amended: a get that consumes Some(blob) returns that blob in the same
\* step, whatever was consumed before; and a get that has returned while some
\* normal blobstore answered Some(blob) and fewer than R answered None returned
\* such a blob, whatever the others did (error, hang) and in whatever order.
C5_GetShortCircuit ==
    \A c \in Clients :
        LET f == calls[c]
        IN  f.entry = "get" =>
              /\ \A s \in TakenVal(f, "Some") :
                    /\ f.pc = "done"
                    /\ f.returned = OkResult("Some", f.futs[s].data)
                    /\ f.futs[s].data = store[s][f.key]
              /\ ( /\ f.pc = "done"
                   /\ AnsweredVal(f, "Some") # {}
                   /\ Cardinality(AnsweredVal(f, "None")) < R )
                 => /\ f.returned.v = "Some"
                    /\ \E s \in AnsweredVal(f, "Some") :
                          f.returned.data = f.futs[s].data

\* a get returned the blob of one blobstore after an error and a None were
\* consumed, with a future still pending when the stream was dropped
C5_Witness ==
    \E c \in Clients :
        LET f == calls[c]
        IN  /\ f.entry = "get"
            /\ f.pc = "done"
            /\ f.returned.v = "Some"
            /\ f.returned.data # None
            /\ (DOMAIN f.errors # {} \/ TakenVal(f, "None") # {})
            /\ \E s \in DOMAIN f.futs : f.futs[s].st = "dropped"

(* ------------------------------------------------------------------ *)
(* C7  put short-circuit                                               *)
(* ------------------------------------------------------------------ *)
ClientIds == {1, 2}

\* C7: when the log call succeeded and W normal blobstores have answered a put
\* with success, the put returns Ok(NotChecked) (unless the caller drops it),
\* whether or not any other normal blobstore ever answers.
C7_PutShortCircuit ==
    \A c \in ClientIds :
        ( /\ c \in Clients
          /\ IsPut(calls[c])
          /\ calls[c].pc = "loop"
          /\ Cardinality(AnsweredOk(calls[c])) >= W )
        ~> ( /\ c \in Clients
             /\ \/ calls[c].pc = "cancelled"
                \/ /\ calls[c].pc = "done"
                   /\ calls[c].result = OkResult("NotChecked", None) )

\* a put has returned Ok(NotChecked) while N - W >= 1 normal blobstores had
\* not answered and none of them has answered since
C7_Witness ==
    \E c \in Clients :
        LET f == calls[c]
        IN  /\ IsPut(f)
            /\ f.pc = "done"
            /\ f.result = OkResult("NotChecked", None)
            /\ N - W >= 1
            /\ Cardinality({s \in DOMAIN f.futs : f.futs[s].st = "bg"}) = N - W
            /\ Cardinality({t \in tasks : ~t.wm}) = N - W

(* ------------------------------------------------------------------ *)
(* C8  write-mostly exclusion                                          *)
(* ------------------------------------------------------------------ *)
\* write-mostly arrays a second run could be configured with
OtherWriteMostly == {<<>>, <<11>>, <<11, 12>>}

\* a frame without what it handed to the write-mostly blobstores
WithoutWriteMostly(f) == [f EXCEPT !.wm_futs = <<>>]

\* C8: the runs of two multiplexes that differ only in their write-mostly
\* blobstores decide alike, because (a) get and is_present never issue a
\* request to a write-mostly blobstore, (b) the stream the quorum loop consumes
\* holds the N normal blobstores only, (c) write-mostly puts exist only once
\* the put has returned Ok, inside a spawned task, (d) every turn of the put
\* loop computes the same counter, error map and return value for every
\* write-mostly array, and (e) the answer of a write-mostly blobstore, success
\* or error, changes no frame, no normal blobstore and no WAL entry.
C8_WriteMostlyExclusion ==
    /\ [](\A c \in Clients :
            LET f == calls[c]
            IN  /\ f.entry \in {"get", "is_present"} => f.wm_futs = <<>>
                /\ f.futs # <<>> =>
                      /\ Len(f.futs) = N
                      /\ \A s \in DOMAIN f.futs : f.futs[s].bs_id = blobstores[s]
                /\ f.wm_futs # <<>> =>
                      /\ f.pc = "done"
                      /\ f.result.t = "Ok"
                      /\ Len(f.wm_futs) = Len(write_mostly_blobstores)
                      /\ \A j \in DOMAIN f.wm_futs : f.wm_futs[j].st = "bg"
                /\ (IsPut(f) /\ f.pc = "loop") =>
                      \A s \in DOMAIN f.futs :
                         f.futs[s].st = "ready" =>
                            \A wm \in OtherWriteMostly :
                               WithoutWriteMostly(put_impl_step(f, s, wm))
                                 = WithoutWriteMostly(put_impl_next(f, s)))
    /\ [][\A t \in tasks :
            (t.wm /\ TaskAnswers(t)) =>
                /\ calls' = calls
                /\ store' = store
                /\ wal_queue' = wal_queue
                /\ acked' = acked]_vars

\* a put returned Ok, its write-mostly put was answered with an error (the
\* write-mostly blobstore holds nothing) and a normal put is still in flight
C8_Witness ==
    \E c \in Clients :
        LET f == calls[c]
        IN  /\ IsPut(f)
            /\ f.returned.t = "Ok"
            /\ Len(f.wm_futs) = 1
            /\ \A t \in tasks : ~t.wm
            /\ tasks # {}
            /\ wm_store[1][f.key] = None

(* ------------------------------------------------------------------ *)
(* C11  classification of a failed get                                 *)
(* ------------------------------------------------------------------ *)
\* C11: a get that has returned after all N normal blobstores (of distinct
\* ids) answered, none with Some and fewer than R with None, returned AllFailed
\* iff all N answered with an error and SomeGetsFailed otherwise, and its error
\* map holds exactly the blobstores that answered with an error, each under its
\* id with its own error.
C11_GetClassification ==
    \A c \in Clients :
        LET f == calls[c]
        IN  ( /\ f.entry = "get"
              /\ f.pc = "done"
              /\ AllAnswered(f)
              /\ AnsweredVal(f, "Some") = {}
              /\ Cardinality(AnsweredVal(f, "None")) < R )
            =>
              /\ f.returned.t = "Err"
              /\ f.returned.v = IF Cardinality(AnsweredErr(f)) = N
                                THEN "AllFailed" ELSE "SomeGetsFailed"
              /\ DOMAIN f.returned.errors = {blobstores[s] : s \in AnsweredErr(f)}
              /\ \A s \in AnsweredErr(f) :
                    f.returned.errors[blobstores[s]] = <<"err", s>>

\* N = 3, R = 2: one blobstore answered None, two an error: SomeGetsFailed
\* with the two of them in the map
C11_Witness ==
    \E c \in Clients :
        LET f == calls[c]
        IN  /\ f.entry = "get"
            /\ f.pc = "done"
            /\ N = 3
            /\ quorum.read = 2
            /\ Cardinality(AnsweredVal(f, "None")) = 1
            /\ Cardinality(AnsweredErr(f)) = 2
            /\ f.returned.v = "SomeGetsFailed"
            /\ Cardinality(DOMAIN f.returned.errors) = 2

(* ------------------------------------------------------------------ *)
(* C12  presence downgrade                                             *)
(* ------------------------------------------------------------------ *)
\* the blobstores that answered is_present with an error or ProbablyNotPresent
AnsweredUnsure(f) == AnsweredErr(f) \cup AnsweredVal(f, "ProbablyNotPresent")

\* C12: an is_present that has returned after all N normal blobstores
\* answered, none with Present and fewer than R with Absent, returned the error
\* AllFailed iff all N answered with an error or ProbablyNotPresent, and
\* otherwise the value Ok(ProbablyNotPresent(SomeIsPresentsFailed(errors))),
\* the map holding exactly those blobstores; and no is_present ever returns an
\* error other than AllFailed.
C12_PresenceDowngrade ==
    \A c \in Clients :
        LET f == calls[c]
        IN  f.entry = "is_present" =>
              /\ f.returned.t = "Err" => f.returned.v = "AllFailed"
              /\ ( /\ f.pc = "done"
                   /\ AllAnswered(f)
                   /\ AnsweredVal(f, "Present") = {}
                   /\ Cardinality(AnsweredVal(f, "Absent")) < R )
                 =>
                   /\ f.returned =
                         IF Cardinality(AnsweredUnsure(f)) = N
                         THEN ErrResult("AllFailed", f.errors)
                         ELSE ProbablyResult(f.errors)
                   /\ DOMAIN f.errors = {blobstores[s] : s \in AnsweredUnsure(f)}
                   /\ \A s \in AnsweredErr(f) :
                         f.errors[blobstores[s]] = <<"err", s>>
                   /\ \A s \in AnsweredVal(f, "ProbablyNotPresent") :
                         f.errors[blobstores[s]] = <<"diag", s>>

(* ------------------------------------------------------------------ *)
(* C13  AllFailed when every normal blobstore fails                    *)
(* ------------------------------------------------------------------ *)
\* C13: on every multiplex the constructor accepts, also one whose normal
\* array names a BlobstoreId twice, a put, get or is_present that has returned
\* after every one of the N normal attempts answered with an error returned
\* AllFailed.
C13_AllFailed ==
    \A c \in Clients :
        LET f == calls[c]
        IN  ( /\ f.pc = "done"
              /\ AllAnswered(f)
              /\ Cardinality(AnsweredErr(f)) = N )
            => /\ f.returned.t = "Err"
               /\ f.returned.v = "AllFailed"

(* ------------------------------------------------------------------ *)
(* C14  cancellation                                                   *)
(* ------------------------------------------------------------------ *)
\* no attempt of the frame can still act: none is pending in a stream and none
\* lives in a spawned task
C14_NothingRuns(f) ==
    /\ \A s \in DOMAIN f.futs : f.futs[s].st \in {"taken", "unread", "dropped"}
    /\ f.wm_futs = <<>>
    /\ IsPut(f) => \A t \in tasks : t.operation_key # f.operation_key

\* C14: when the caller drops a get, an is_present or a put that has not
\* returned, every attempt of the normal fan-out that had not answered is
\* dropped with the stream and never answers; from then on the frame and the
\* WAL stay as they are and a blobstore changes only through the spawned task
\* of another operation; a cancelled put never has a write-mostly attempt or a
\* spawned task, and the WAL entry it wrote stays.
C14_Cancellation ==
    /\ [](\A c \in Clients :
            LET f == calls[c]
            IN  f.pc = "cancelled" =>
                  /\ C14_NothingRuns(f)
                  /\ (IsPut(f) /\ f.futs # <<>>) => Logged(f.key, f.operation_key))
    /\ [][\A c \in Clients :
            /\ Cancel(c) =>
                  /\ \A s \in DOMAIN calls[c].futs :
                        calls[c].futs[s].st = "pending"
                            => calls'[c].futs[s].st = "dropped"
                  /\ store' = store /\ wm_store' = wm_store
                  /\ wal_queue' = wal_queue /\ tasks' = tasks
            /\ (calls[c].pc = "cancelled" /\ script[c] = <<>>) =>
                  /\ calls'[c] = calls[c]
                  /\ wal_queue' = wal_queue
                  /\ (store' # store \/ wm_store' # wm_store \/ tasks' # tasks) =>
                        \E t \in tasks :
                           /\ t.operation_key # calls[c].operation_key
                           /\ tasks' = tasks \ {t}]_vars

\* a put was dropped in its loop after one normal blobstore had written and
\* while another had not answered; its WAL entry is there
C14_Witness ==
    \E c \in Clients :
        LET f == calls[c]
        IN  /\ IsPut(f)
            /\ f.pc = "cancelled"
            /\ \E s \in DOMAIN f.futs : f.futs[s].st = "dropped"
            /\ \E s \in DOMAIN f.futs : f.futs[s].st \in {"taken", "unread"} /\ f.futs[s].ok
            /\ Logged(f.key, f.operation_key)
            /\ \E s \in DOMAIN store : store[s][f.key] # None

(* ------------------------------------------------------------------ *)
(* C15  the residual normal puts complete in the background            *)
(* ------------------------------------------------------------------ *)
\* the outputs of the attempts of operation op that completed in a spawned task
CompletedOf(op, wm) == {r \in completed : r.operation_key = op /\ r.wm = wm}

\* the normal attempt of slot s of the put of frame f has produced its output,
\* in the loop of the caller or in the spawned task
NormalAttemptDone(f, s) ==
    \/ f.futs[s].st \in {"taken", "unread"}
    \/ \E r \in CompletedOf(f.operation_key, FALSE) : r.slot = s

NormalAttemptOk(f, s) ==
    \/ f.futs[s].st \in {"taken", "unread"} /\ f.futs[s].ok
    \/ \E r \in CompletedOf(f.operation_key, FALSE) : r.slot = s /\ r.fut.ok

\* every normal attempt of the put has completed, and if all of them succeeded
\* every normal blobstore holds the value
C15_Settled(f) ==
    /\ Len(f.futs) = N
    /\ \A s \in DOMAIN f.futs : NormalAttemptDone(f, s)
    /\ \A t \in tasks : ~(t.operation_key = f.operation_key /\ ~t.wm)
    /\ (\A s \in DOMAIN f.futs : NormalAttemptOk(f, s))
          => \A s \in DOMAIN store : store[s][f.key] = Some(f.value)

\* C15: once a put has returned Ok, the normal attempts it had not consumed
\* live on in a spawned task that nothing cancels: under fairness of the task
\* every normal attempt completes, and when all of them succeeded every normal
\* blobstore holds the value.
C15_ResidualCompletes ==
    \A c \in ClientIds :
        ( /\ c \in Clients
          /\ IsPut(calls[c])
          /\ calls[c].returned.t = "Ok" )
        ~> ( /\ c \in Clients
             /\ C15_Settled(calls[c]) )

\* a put on three blobstores with W = 1 returned after one answer; the two
\* residual attempts succeeded in the task and all three hold the value
C15_Witness ==
    \E c \in Clients :
        LET f == calls[c]
        IN  /\ IsPut(f)
            /\ f.returned.t = "Ok"
            /\ N = 3
            /\ Cardinality(CompletedOf(f.operation_key, FALSE)) = 2
            /\ C15_Settled(f)
            /\ \A s \in DOMAIN store : store[s][f.key] = Some(f.value)

(* ------------------------------------------------------------------ *)
(* C16  the write-mostly puts of a successful put                      *)
(* ------------------------------------------------------------------ *)
\* the write-mostly attempts of operation op for slot j, running or completed
WriteMostlyAttempts(op, j) ==
    {t \in tasks \cup completed : t.operation_key = op /\ t.wm /\ t.slot = j}

\* C16: a put that has returned Ok has, for every write-mostly blobstore,
\* exactly one attempt, owned by a spawned task, with the id of that blobstore
\* and the request (method, key, value, put behaviour) the normal blobstores
\* got; a put that has not returned Ok has none; under fairness each of these
\* attempts completes; and whatever they answer, the value the caller got
\* stays as it was.
C16_WriteMostlyPuts ==
    /\ [](\A c \in Clients :
            LET f == calls[c]
            IN  IsPut(f) =>
                  \A j \in DOMAIN write_mostly_blobstores :
                     IF f.returned.t = "Ok"
                     THEN /\ Cardinality(WriteMostlyAttempts(f.operation_key, j)) = 1
                          /\ \A t \in WriteMostlyAttempts(f.operation_key, j) :
                                /\ t.fut.bs_id = write_mostly_blobstores[j]
                                /\ t.fut.req = inner_put(f.key, f.value, f.put_behaviour)
                                /\ \A s \in DOMAIN f.futs : f.futs[s].req = t.fut.req
                          /\ f.returned.errors = EmptyMap
                     ELSE WriteMostlyAttempts(f.operation_key, j) = {})
    /\ [][\A t \in tasks : (t.wm /\ TaskAnswers(t)) => calls' = calls]_vars
    /\ \A c \in ClientIds :
          ( /\ c \in Clients
            /\ IsPut(calls[c])
            /\ calls[c].returned.t = "Ok" )
          ~> ( /\ c \in Clients
               /\ \A j \in DOMAIN write_mostly_blobstores :
                     \E r \in CompletedOf(calls[c].operation_key, TRUE) : r.slot = j )

\* a put_explicit returned Ok; its write-mostly attempt carried the behaviour
\* and ended with an error, the write-mostly blobstore holds nothing and the
\* caller still has its Ok
C16_Witness ==
    \E c \in Clients :
        LET f == calls[c]
        IN  /\ f.entry = "put_explicit"
            /\ f.returned = OkResult("NotChecked", None)
            /\ Len(write_mostly_blobstores) = 1
            /\ \E r \in CompletedOf(f.operation_key, TRUE) :
                  /\ ~r.fut.ok
                  /\ r.fut.req.behaviour = f.put_behaviour
            /\ wm_store[1][f.key] = None

(* ------------------------------------------------------------------ *)
(* C17  one WAL entry per put                                          *)
(* ------------------------------------------------------------------ *)
\* the positions of the WAL entries of operation op
EntriesOf(op) == {i \in DOMAIN wal_queue : wal_queue[i].operation_key = op}

\* C17: a put whose blobstore writes were launched (still in its loop, dropped
\* there, or returned with Ok, SomePutsFailed or AllFailed) has exactly one WAL
\* entry, which carries its key, the multiplex id, its operation key and
\* blob_size = the length of its value; no two entries share an operation key;
\* the WAL only grows, by one entry per step, in the log step of a put; and no
\* step of a get or an is_present changes it.
C17_OneWalEntryPerPut ==
    /\ [](\A c \in Clients :
            LET f == calls[c]
            IN  /\ (IsPut(f) /\ f.futs # <<>>) =>
                      /\ Cardinality(EntriesOf(f.operation_key)) = 1
                      /\ \A i \in EntriesOf(f.operation_key) :
                            wal_queue[i] =
                               [blobstore_key |-> f.key,
                                multiplex_id |-> multiplex_id,
                                operation_key |-> f.operation_key,
                                blob_size |-> Some(Len(f.value))]
                /\ (IsPut(f) /\ f.pc = "done" /\ f.returned.v # "WalError")
                      => f.futs # <<>>)
    /\ [](\A i, j \in DOMAIN wal_queue :
            i # j => wal_queue[i].operation_key # wal_queue[j].operation_key)
    /\ [][/\ wal_queue' # wal_queue =>
                /\ Len(wal_queue') = Len(wal_queue) + 1
                /\ SubSeq(wal_queue', 1, Len(wal_queue)) = wal_queue
                /\ \E c \in Clients : WalLogOk(c)
           /\ \A c \in Clients :
                 ( /\ calls'[c].entry \in {"get", "is_present"}
                   /\ calls'[c] # calls[c] ) => wal_queue' = wal_queue]_vars

\* a second put of two bytes ended with SomePutsFailed after a first put had
\* returned Ok: the WAL holds one entry for each, the second of size 2
C17_Witness ==
    \E c \in Clients :
        LET f == calls[c]
        IN  /\ IsPut(f)
            /\ f.pc = "done"
            /\ f.returned.v = "SomePutsFailed"
            /\ Len(wal_queue) = 2
            /\ wal_queue[2].operation_key = f.operation_key
            /\ wal_queue[2].blob_size = Some(2)
            /\ wal_queue[1].operation_key # f.operation_key
            /\ acked # {}

(* ------------------------------------------------------------------ *)
(* C18  a successful put returns NotChecked                            *)
(* ------------------------------------------------------------------ *)
OverwriteStatuses == {"NotChecked", "NewKey", "Overwrote", "PreventedOverwrite"}

\* the normal attempts whose Ok(status) the loop has consumed
TakenStatus(f) ==
    {s \in DOMAIN f.futs :
        f.futs[s].st = "taken" /\ f.futs[s].ok /\ f.futs[s].val \in OverwriteStatuses}

\* C18: put_impl returns no Ok value other than NotChecked, and each consumed
\* Ok(status) of a normal blobstore, whatever the status, lowers the quorum
\* counter by one: the counter of a put is W minus the number of consumed Ok
\* statuses, and the put has returned Ok exactly when that number is W.
C18_SuccessIsNotChecked ==
    \A c \in Clients :
        LET f == calls[c]
        IN  IsPut(f) =>
              /\ f.result.t = "Ok" => f.result = OkResult("NotChecked", None)
              /\ f.futs # <<>> =>
                    /\ TakenStatus(f) = TakenOk(f)
                    /\ f.quorum = W - Cardinality(TakenStatus(f))
                    /\ f.result.t = "Ok" <=> Cardinality(TakenStatus(f)) = W

\* a put_explicit(IfAbsent) after an earlier put met its quorum of two with a
\* PreventedOverwrite and a NewKey and returned NotChecked
C18_Witness ==
    \E c \in Clients :
        LET f == calls[c]
        IN  /\ f.entry = "put_explicit"
            /\ f.result = OkResult("NotChecked", None)
            /\ W = 2
            /\ \E s \in TakenStatus(f) : f.futs[s].val = "PreventedOverwrite"
            /\ \E s \in TakenStatus(f) : f.futs[s].val = "NewKey"

(* ------------------------------------------------------------------ *)
(* C19  behaviour pass-through                                         *)
(* ------------------------------------------------------------------ *)
\* every request the put of frame f has issued so far: in its streams, in
\* spawned tasks, or completed there
IssuedRequests(f) ==
    {f.futs[s].req : s \in DOMAIN f.futs}
    \cup {f.wm_futs[j].req : j \in DOMAIN f.wm_futs}
    \cup {t.fut.req : t \in {x \in tasks \cup completed :
                                  x.operation_key = f.operation_key}}

\* C19: every request a put_explicit(behaviour) issues, to a normal or a
\* write-mostly blobstore, is put_explicit with that behaviour, key and value;
\* every request a put or a put_with_status issues is put_with_status with the
\* key and value; put_with_status and put_explicit return what put_impl
\* returned; and put returns unit exactly when put_impl (put_with_status)
\* returned Ok, that is when W successes were consumed, and its error otherwise.
C19_BehaviourPassThrough ==
    \A c \in Clients :
        LET f == calls[c]
        IN  IsPut(f) =>
              /\ f.entry = "put_explicit" =>
                    /\ f.put_behaviour \in PutBehaviours
                    /\ \A r \in IssuedRequests(f) :
                          r = [method |-> "put_explicit",
                               behaviour |-> f.put_behaviour,
                               key |-> f.key, value |-> f.value]
                    /\ f.returned = f.result
              /\ f.entry \in {"put", "put_with_status"} =>
                    /\ \A r \in IssuedRequests(f) :
                          r = [method |-> "put_with_status",
                               behaviour |-> NoBehaviour,
                               key |-> f.key, value |-> f.value]
              /\ f.entry = "put_with_status" => f.returned = f.result
              /\ (f.entry = "put" /\ f.pc = "done") =>
                    /\ f.returned.t = "Ok" <=> f.result.t = "Ok"
                    /\ f.returned.t = "Ok" <=>
                          (f.futs # <<>> /\ Cardinality(TakenOk(f)) = W)
                    /\ f.returned.t = "Ok" => f.returned = OkResult("Unit", None)
                    /\ f.returned.t = "Err" => f.returned = f.result

\* a put_explicit(IfAbsent) returned Ok; a residual normal attempt and the
\* write-mostly attempt, both in spawned tasks, carry IfAbsent
C19_Witness ==
    \E c \in Clients :
        LET f == calls[c]
        IN  /\ f.entry = "put_explicit"
            /\ f.put_behaviour = "IfAbsent"
            /\ f.returned.t = "Ok"
            /\ \E t \in tasks : t.wm /\ t.fut.req.behaviour = "IfAbsent"
            /\ \E t \in tasks : ~t.wm /\ t.fut.req.behaviour = "IfAbsent"

(* ------------------------------------------------------------------ *)
(* C20  the outcome of put does not depend on the completion order     *)
(* ------------------------------------------------------------------ *)
\* the log call of the put succeeded and every normal attempt has completed
C20_AllCompleted(f) ==
    /\ IsPut(f)
    /\ f.pc = "done"
    /\ Len(f.futs) = N
    /\ \A s \in DOMAIN f.futs : NormalAttemptDone(f, s)

C20_Succeeded(f) == {s \in DOMAIN f.futs : NormalAttemptOk(f, s)}

\* C20: two puts whose log call succeeded and whose normal attempts have all
\* completed with the same assignment of success and error to the normal
\* blobstores returned the same: Ok iff at least W succeeded, otherwise the
\* same error kind with the same error map, in whatever order the attempts of
\* either completed.
C20_OrderIndependence ==
    \A c1, c2 \in Clients :
        LET f == calls[c1]
            g == calls[c2]
        IN  ( /\ C20_AllCompleted(f)
              /\ C20_AllCompleted(g)
              /\ C20_Succeeded(f) = C20_Succeeded(g) )
            => /\ f.result.t = "Ok" <=> Cardinality(C20_Succeeded(f)) >= W
               /\ f.result = g.result

(* ------------------------------------------------------------------ *)
(* C21  presence decisions                                             *)
(* ------------------------------------------------------------------ *)
\* the attempts whose error or ProbablyNotPresent the loop has consumed
TakenUnsure(f) ==
    {s \in DOMAIN f.futs :
        /\ f.futs[s].st = "taken"
        /\ (~f.futs[s].ok \/ f.futs[s].val = "ProbablyNotPresent")}

\* C21: an is_present that has consumed a Present answer has returned Present
\* in that step, whatever errors it had recorded, and it returns Present only
\* so; it returns Absent only after consuming Absent from R normal blobstores;
\* a consumed ProbablyNotPresent leaves the counter alone (the counter is R
\* minus the consumed Absent answers) and is in the error map under the id of
\* its blobstore, with its diagnostic unless a later failure of a blobstore of
\* the same id replaced it.
C21_PresenceDecisions ==
    \A c \in Clients :
        LET f == calls[c]
        IN  f.entry = "is_present" =>
              /\ TakenVal(f, "Present") # {} =>
                    /\ f.pc = "done"
                    /\ f.returned = OkResult("Present", None)
              /\ f.returned = OkResult("Present", None) =>
                    /\ Cardinality(TakenVal(f, "Present")) = 1
                    /\ \A s \in TakenVal(f, "Present") :
                          store[s][f.key] # None
              /\ f.returned = OkResult("Absent", None) =>
                    /\ Cardinality(TakenVal(f, "Absent")) = quorum.read
                    /\ quorum.read = R
              /\ f.quorum = quorum.read - Cardinality(TakenVal(f, "Absent"))
              /\ \A s \in TakenVal(f, "ProbablyNotPresent") :
                    /\ f.futs[s].bs_id \in DOMAIN f.errors
                    /\ (\A x \in TakenUnsure(f) :
                           x # s => f.futs[x].bs_id # f.futs[s].bs_id)
                         => f.errors[f.futs[s].bs_id] = <<"diag", s>>

\* after a put, an is_present consumed an error and a ProbablyNotPresent, both
\* recorded, and then returned Present on the answer of the third blobstore
C21_Witness ==
    \E c \in Clients :
        LET f == calls[c]
        IN  /\ f.entry = "is_present"
            /\ f.returned = OkResult("Present", None)
            /\ Cardinality(DOMAIN f.errors) = 2
            /\ TakenVal(f, "ProbablyNotPresent") # {}
            /\ \E s \in DOMAIN f.futs : f.futs[s].st = "taken" /\ ~f.futs[s].ok

\* ---------------------------------------------------------------------------
\* The stream of attempts with the laziness of its futures made explicit.
\* inner_multi_put / inner_multi_get / inner_multi_is_present collect async
\* blocks into a FuturesUnordered: an async block does nothing until it is
\* polled, and its first poll is what passes the request to the blobstore.
\* `futs.next().await` polls the futures not polled yet in the order they were
\* collected and hands back the first output it finds: a future that
\* completes during its first poll ends the round at once.

\* the slots of the stream of client c that have never been polled
Unpolled(c) == {s \in DOMAIN blobstores : <<c, s>> \in unpolled}

FreshStream(c) ==
    {p \in unpolled : p[1] # c} \cup {<<c, s>> : s \in DOMAIN blobstores}

LazyWalLogOk(c) ==
    /\ calls[c].pc = "wal"
    /\ wal_queue' = Append(wal_queue, put_impl_log_entry(calls[c]))
    /\ calls' = [calls EXCEPT ![c] = put_impl_launch(calls[c])]
    /\ unpolled' = FreshStream(c)
    /\ UNCHANGED <<config, next_operation_key, store, wm_store, tasks, script,
                   acked, completed, qargs, qresult>>

LazyGetCall(c) ==
    /\ CanCall(c)
    /\ Head(script[c]).entry = "get"
    /\ calls' = [calls EXCEPT ![c] = get_impl_begin(Head(script[c]).key)]
    /\ script' = [script EXCEPT ![c] = Tail(script[c])]
    /\ unpolled' = FreshStream(c)
    /\ UNCHANGED <<config, wal_queue, next_operation_key, store, wm_store, tasks,
                   acked, completed, qargs, qresult>>

LazyIsPresentCall(c) ==
    /\ CanCall(c)
    /\ Head(script[c]).entry = "is_present"
    /\ calls' = [calls EXCEPT ![c] = is_present_impl_begin(Head(script[c]).key)]
    /\ script' = [script EXCEPT ![c] = Tail(script[c])]
    /\ unpolled' = FreshStream(c)
    /\ UNCHANGED <<config, wal_queue, next_operation_key, store, wm_store, tasks,
                   acked, completed, qargs, qresult>>

\* the first future of the stream not polled yet
NextToPoll(c) == CHOOSE s \in Unpolled(c) : \A u \in Unpolled(c) : s <= u

\* next() polls the future for the first time and it is not ready: the request
\* is with the blobstore, the round goes on
FirstPollPending(c) ==
    /\ calls[c].pc = "loop"
    /\ Unpolled(c) # {}
    /\ calls[c].futs[NextToPoll(c)].st = "pending"
    /\ unpolled' = unpolled \ {<<c, NextToPoll(c)>>}
    /\ UNCHANGED <<config, wal_queue, next_operation_key, store, wm_store, calls,
                   tasks, script, acked, completed, qargs, qresult>>

\* next() polls the future for the first time and the blobstore answers within
\* that poll
FirstPollReady(c) ==
    /\ calls[c].pc = "loop"
    /\ Unpolled(c) # {}
    /\ LET s == NextToPoll(c)
       IN  /\ calls[c].futs[s].st = "pending"
           /\ \E out \in BackendOutputs(store[s][calls[c].futs[s].req.key],
                                        calls[c].futs[s], s) :
                 /\ store' = [store EXCEPT ![s] = BackendContent(store[s], out)]
                 /\ calls' = [calls EXCEPT ![c].futs[s] = [out EXCEPT !.st = "ready"]]
           /\ unpolled' = unpolled \ {<<c, s>>}
    /\ UNCHANGED <<config, wal_queue, next_operation_key, wm_store, tasks, script,
                   acked, completed, qargs, qresult>>

\* a blobstore that has the request answers it
PolledBlobstoreAnswers(c, s) ==
    /\ <<c, s>> \notin unpolled
    /\ BlobstoreAnswers(c, s)

LazyNext ==
    \/ \E c \in Clients : PutCall(c)
    \/ \E c \in Clients : LazyWalLogOk(c)
    \/ \E c \in Clients : WalLogErr(c)
    \/ \E c \in Clients : LazyGetCall(c)
    \/ \E c \in Clients : LazyIsPresentCall(c)
    \/ \E c \in Clients : FirstPollPending(c)
    \/ \E c \in Clients : FirstPollReady(c)
    \/ \E c \in Clients, s \in DOMAIN blobstores : PolledBlobstoreAnswers(c, s)
    \/ \E c \in Clients, s \in DOMAIN blobstores : PutNext(c, s)
    \/ \E c \in Clients, s \in DOMAIN blobstores : GetNext(c, s)
    \/ \E c \in Clients, s \in DOMAIN blobstores : IsPresentNext(c, s)
    \/ \E c \in Clients : Cancel(c)
    \/ \E t \in tasks : TaskAnswers(t)

\* one client, one call, attempts issued at their first poll
LazySpec == Init /\ [][LazyNext]_vars

\* the attempts of frame f have been created: one per normal blobstore, each
\* carrying the request of the call
StreamBuilt(f) ==
    /\ Len(f.futs) = N
    /\ \A s \in 1..N :
          /\ f.futs[s].bs_id = blobstores[s]
          /\ f.futs[s].req.key = f.key
          /\ f.futs[s].req.method =
                IF IsPut(f) THEN inner_put(f.key, f.value, f.put_behaviour).method
                ELSE f.entry

\* some output of the stream of frame f has been consumed by the loop
Consumed(f) == \E s \in DOMAIN f.futs : f.futs[s].st = "taken"

\* C22 as stated: once the loop has consumed a completion, and so whenever the
\* operation has returned from its loop, every normal blobstore has been
\* issued the request
C22_AsStated ==
    \A c \in Clients :
        Consumed(calls[c]) => Unpolled(c) = {}

\* C22 (amended): before the loop consumes its first completion every normal
\* blobstore has its attempt in the stream (created, with the request of the
\* call), but attempts are first polled in array order and the loop consumes
\* the first output it finds: a slot still unpolled has not answered and its
\* blobstore is untouched by the call, the unpolled slots are the last ones of
\* the array, a read that returns drops them unissued, and a put that returns
\* Ok hands them to the spawned task
C22_FanOutLaunch ==
    \A c \in Clients :
        LET f == calls[c]
        IN  /\ (f.pc = "loop" \/ Consumed(f)) => StreamBuilt(f)
            /\ f.futs # <<>> =>
                  /\ \A s \in Unpolled(c), u \in 1..N :
                        s <= u => u \in Unpolled(c)
                  /\ \A s \in Unpolled(c) :
                        /\ f.futs[s].st \in {"pending", "dropped", "bg"}
                        /\ f.pc = "done" /\ ~IsPut(f) => f.futs[s].st = "dropped"
                        /\ f.pc = "done" /\ IsPut(f) =>
                              /\ f.futs[s].st = "bg"
                              /\ \E t \in tasks \cup completed :
                                    /\ t.operation_key = f.operation_key
                                    /\ ~t.wm
                                    /\ t.slot = s
                        /\ f.pc # "done" /\ IsPut(f) =>
                              store[s][f.key] = None

\* a call returned from its loop while its last blobstore was never polled
C22_Witness ==
    \E c \in Clients :
        /\ calls[c].pc = "done"
        /\ Consumed(calls[c])
        /\ N \in Unpolled(c)
        /\ N >= 2

(* ------------------------------------------------------------------ *)
(* C23  termination without timeouts                                   *)
(* ------------------------------------------------------------------ *)
\* the hypothesis of the claim: the WAL answers the log call and every normal
\* blobstore answers the attempt it was given
WalFairness == WF_vars(\E c \in Clients : WalLogOk(c) \/ WalLogErr(c))

AnswerFairness ==
    WF_vars(\E c \in Clients, s \in DOMAIN blobstores : BlobstoreAnswers(c, s))

TermSpec == Spec /\ LoopFairness /\ WalFairness /\ AnswerFairness

\* the call of frame f is suspended in put_impl, get_impl or is_present_impl
InFlight(f) == f.pc \in {"wal", "loop"}

\* the outputs the loop of frame f consumed do not decide the call: fewer than
\* W successes for a put; no Some / Present and fewer than R None / Absent for
\* a read
Undecided(f) ==
    IF IsPut(f)
    THEN Cardinality(TakenOk(f)) < W
    ELSE /\ TakenVal(f, "Some") = {}
         /\ TakenVal(f, "Present") = {}
         /\ Cardinality(TakenVal(f, "None") \cup TakenVal(f, "Absent")) < R

\* C23: (a) when the WAL and the normal blobstores answer, a call that is in
\* flight returns (unless its caller drops it); (b) a call leaves its loop only
\* in the step that consumes an output, never by the passing of time, and one
\* that returned undecided had consumed the output of every normal blobstore:
\* none was pending then
C23_Termination ==
    /\ \A c \in ClientIds :
          (c \in Clients /\ InFlight(calls[c]))
          ~> (c \in Clients /\ calls[c].pc \in {"done", "cancelled"})
    /\ [](\A c \in Clients :
            LET f == calls[c]
            IN  (f.pc = "done" /\ f.futs # <<>> /\ Undecided(f)) =>
                    /\ Len(f.futs) = N
                    /\ \A s \in 1..N : f.futs[s].st = "taken")
    /\ [][\A c \in Clients :
            (calls[c].pc = "loop" /\ calls'[c].pc = "done") =>
                \E s \in 1..N : /\ calls[c].futs[s].st = "ready"
                                /\ calls'[c].futs[s].st = "taken"]_vars

\* an undecided call has returned, every one of at least two normal blobstores
\* having answered
C23_Witness ==
    \E c \in Clients :
        /\ calls[c].pc = "done"
        /\ calls[c].futs # <<>>
        /\ Undecided(calls[c])
        /\ N >= 2
        /\ \A s \in 1..N : calls[c].futs[s].st = "taken"

(* ------------------------------------------------------------------ *)
(* C24  concurrent puts to one key                                     *)
(* ------------------------------------------------------------------ *)
\* two callers on one multiplex put different values under the same key; their
\* calls run concurrently
RaceInit ==
    /\ BuiltAnyIds
    /\ calls = <<IdleFrame, IdleFrame>>
    /\ \E a \in {x \in PutArgs : x.entry = "put_with_status" /\ x.key = "k1"
                                 /\ x.value = <<7>>} :
          \E b \in {x \in PutArgs : x.entry = a.entry /\ x.key = a.key
                                    /\ x.value = <<8, 9>>} :
              script = <<(<<a>>), (<<b>>)>>

\* the steps of put calls: neither caller reads
RaceNext ==
    \/ \E c \in Clients : PutCall(c)
    \/ \E c \in Clients : WalLogOk(c)
    \/ \E c \in Clients : WalLogErr(c)
    \/ \E c \in Clients, s \in DOMAIN blobstores : PutNext(c, s)
    \/ \E c \in Clients, s \in DOMAIN blobstores : BlobstoreAnswers(c, s)
    \/ \E c \in Clients : Cancel(c)
    \/ \E t \in tasks : TaskAnswers(t)

RaceSpec == RaceInit /\ [][RaceNext]_vars

\* the values the puts in flight or returned carry for key k
ValuesPut(k) ==
    {calls[c].value : c \in {d \in Clients : IsPut(calls[d]) /\ calls[d].key = k}}

\* C24: of two puts to one key each has its own operation key; each that got
\* past the log call has its own WAL entry, sized for its own value, and a full
\* stream of attempts carrying its own value; nothing orders the two: a step of
\* one put never waits for, nor changes, the frame of the other; and a normal
\* blobstore holds under the key nothing or the value of one of the puts
C24_ConcurrentPuts ==
    /\ [](\A c \in Clients, d \in Clients :
            LET f == calls[c]
                g == calls[d]
            IN  (c # d /\ IsPut(f) /\ IsPut(g) /\ f.key = g.key) =>
                   /\ f.operation_key # g.operation_key
                   /\ (f.futs # <<>> /\ g.futs # <<>>) =>
                         \E i \in DOMAIN wal_queue, j \in DOMAIN wal_queue :
                            /\ i # j
                            /\ wal_queue[i].operation_key = f.operation_key
                            /\ wal_queue[i].blob_size = Some(Len(f.value))
                            /\ wal_queue[j].operation_key = g.operation_key
                            /\ wal_queue[j].blob_size = Some(Len(g.value))
                   /\ f.futs # <<>> =>
                         \A s \in DOMAIN f.futs : f.futs[s].req.value = f.value)
    /\ [](\A s \in DOMAIN store, k \in Keys :
            store[s][k] # None => \E v \in ValuesPut(k) : store[s][k] = Some(v))
    /\ [][\A c \in Clients, d \in Clients :
            (c # d /\ calls'[c] # calls[c]) => calls'[d] = calls[d]]_vars
    /\ [](\A c \in Clients :
            calls[c].pc = "wal" => ENABLED WalLogOk(c))

\* both puts have returned Ok, every attempt of theirs has finished, and two
\* normal blobstores are left holding different values under the key
C24_Witness ==
    /\ \A c \in Clients :
          /\ IsPut(calls[c])
          /\ calls[c].pc = "done"
          /\ calls[c].returned.t = "Ok"
    /\ Cardinality(Clients) = 2
    /\ calls[1].key = calls[2].key
    /\ calls[1].value # calls[2].value
    /\ Len(wal_queue) = 2
    /\ tasks = {}
    /\ \E s \in DOMAIN store, u \in DOMAIN store :
          /\ store[s][calls[1].key] = Some(calls[1].value)
          /\ store[u][calls[1].key] = Some(calls[2].value)

(* ------------------------------------------------------------------ *)
(* C25  frame of reads                                                 *)
(* ------------------------------------------------------------------ *)
IsRead(f) == f.entry \in {"get", "is_present"}

\* C25: every step of a get or an is_present (the call, an answer of a normal
\* blobstore to it, a turn of its loop, its cancellation) leaves the WAL, the
\* contents of the normal and of the write-mostly blobstores and the set of
\* spawned tasks as they were; its stream holds one attempt per normal
\* blobstore, each a read of the key of the call by the method of the call, and
\* nothing for a write-mostly blobstore; once it has returned or was dropped no
\* attempt of it is pending, ready or in the background; and every attempt a
\* spawned task holds or held is a put
C25_ReadFrame ==
    /\ [][\A c \in Clients :
            (IsRead(calls'[c]) /\ calls'[c] # calls[c]) =>
                /\ wal_queue' = wal_queue
                /\ store' = store
                /\ wm_store' = wm_store
                /\ tasks' = tasks
                /\ completed' = completed
                /\ next_operation_key' = next_operation_key]_vars
    /\ [](\A c \in Clients :
            LET f == calls[c]
            IN  IsRead(f) =>
                   /\ Len(f.futs) = N
                   /\ f.wm_futs = <<>>
                   /\ \A s \in 1..N :
                         /\ f.futs[s].bs_id = blobstores[s]
                         /\ f.futs[s].req.method = f.entry
                         /\ f.futs[s].req.key = f.key
                         /\ f.pc \in {"done", "cancelled"} =>
                               f.futs[s].st \in {"taken", "unread", "dropped"})
    /\ [](\A t \in tasks \cup completed :
            t.fut.req.method \in {"put_with_status", "put_explicit"})

\* a read has returned while a blobstore had not answered it yet: the attempt
\* was dropped; the value and the tasks of the put made before it are there
C25_Witness ==
    \E c \in Clients :
        LET f == calls[c]
        IN  /\ IsRead(f)
            /\ f.pc = "done"
            /\ \E s \in 1..N : f.futs[s].st = "dropped"
            /\ \E s \in 1..N : store[s][f.key] # None
            /\ tasks # {}
            /\ Len(wal_queue) = 1

(* ------------------------------------------------------------------ *)
(* C26  no write-mostly write without the quorum                       *)
(* ------------------------------------------------------------------ *)
\* the put of frame f has got past the log call and its loop has not consumed
\* W successes: it is in its loop, was dropped there, or returned AllFailed or
\* SomePutsFailed
BelowQuorum(f) ==
    /\ IsPut(f)
    /\ f.futs # <<>>
    /\ Cardinality(TakenOk(f)) < W

\* C26: as long as a put is below its quorum, and for good if it ends there,
\* its WAL entry exists, no put of it has been handed to a write-mostly
\* blobstore (none in the frame, none in a task, none completed) and every
\* write-mostly blobstore holds what it held before the call; a put that
\* returned an error from its loop is below quorum; and the content of a
\* write-mostly blobstore changes only in a step of a spawned task of a put
\* that has returned Ok
C26_WriteMostlyAfterQuorum ==
    /\ [](\A c \in Clients :
            LET f == calls[c]
            IN  /\ BelowQuorum(f) =>
                      /\ Logged(f.key, f.operation_key)
                      /\ f.wm_futs = <<>>
                      /\ \A t \in tasks \cup completed :
                            t.operation_key = f.operation_key => ~t.wm
                      /\ \A j \in DOMAIN wm_store, k \in Keys : wm_store[j][k] = None
                /\ ( /\ IsPut(f)
                     /\ f.pc = "done"
                     /\ f.returned.t = "Err"
                     /\ f.returned.v \in {"AllFailed", "SomePutsFailed"} )
                   => BelowQuorum(f))
    /\ [][wm_store' # wm_store =>
            \E t \in tasks :
               /\ t.wm
               /\ TaskAnswers(t)
               /\ \E c \in Clients :
                     /\ calls[c].operation_key = t.operation_key
                     /\ calls[c].returned.t = "Ok"
                     /\ Cardinality(TakenOk(calls[c])) = W]_vars

\* a put has returned SomePutsFailed on a multiplex with a write-mostly
\* blobstore: its WAL entry is there, a normal blobstore holds the value, the
\* write-mostly blobstore holds nothing and nothing is left running
C26_Witness ==
    \E c \in Clients :
        LET f == calls[c]
        IN  /\ IsPut(f)
            /\ f.pc = "done"
            /\ f.returned.v = "SomePutsFailed"
            /\ Logged(f.key, f.operation_key)
            /\ \E s \in DOMAIN store : store[s][f.key] = Some(f.value)
            /\ Len(write_mostly_blobstores) >= 1
            /\ \A j \in DOMAIN wm_store : wm_store[j][f.key] = None
            /\ tasks = {}

(* ------------------------------------------------------------------ *)
(* C27  size of the surfaced error map                                 *)
(* ------------------------------------------------------------------ *)
\* the number of entries of the error map the call of frame f returned
SurfacedErrors(f) == Cardinality(DOMAIN f.returned.errors)

\* C27 (normal blobstores of distinct ids): the map of a returned
\* SomePutsFailed has between R and N - 1 entries; the map of a returned
\* SomeGetsFailed, and the map inside a returned
\* Ok(ProbablyNotPresent(SomeIsPresentsFailed)), has between W and N - 1; none
\* is empty; no put returns SomePutsFailed when W = 1, and no get returns
\* SomeGetsFailed and no is_present the downgraded answer when W = N
C27_ErrorMapSize ==
    \A c \in Clients :
        LET f == calls[c]
        IN  /\ (IsPut(f) /\ f.returned.v = "SomePutsFailed") =>
                  /\ R <= SurfacedErrors(f)
                  /\ SurfacedErrors(f) <= N - 1
                  /\ SurfacedErrors(f) >= 1
                  /\ W # 1
            /\ (f.entry = "get" /\ f.returned.v = "SomeGetsFailed") =>
                  /\ W <= SurfacedErrors(f)
                  /\ SurfacedErrors(f) <= N - 1
                  /\ SurfacedErrors(f) >= 1
                  /\ W # N
            /\ (f.entry = "is_present" /\ f.returned.v = "ProbablyNotPresent") =>
                  /\ W <= SurfacedErrors(f)
                  /\ SurfacedErrors(f) <= N - 1
                  /\ SurfacedErrors(f) >= 1
                  /\ W # N

\* on three blobstores a partial failure was returned with a map at its lower
\* bound, below N - 1: a put with W = 3 and one error, or a read with W = 1
\* and one error
C27_Witness ==
    \E c \in Clients :
        LET f == calls[c]
        IN  /\ N = 3
            /\ f.pc = "done"
            /\ SurfacedErrors(f) = 1
            /\ \/ IsPut(f) /\ f.returned.v = "SomePutsFailed" /\ R = 1
               \/ f.entry = "get" /\ f.returned.v = "SomeGetsFailed" /\ W = 1
               \/ f.entry = "is_present" /\ f.returned.v = "ProbablyNotPresent" /\ W = 1
====
